---- MODULE Spec2Model ----
(***************************************************************************)
(* Model of umap/static/umap/js/modules/formatter.js: the geometry text    *)
(* resolver (parseTextGeom), the CSV import handler (Formatter.fromCSV),   *)
(* the XML/JSON adapters (fromGPX, fromKML, fromOSM, fromGeoRSS,           *)
(* fromGeoJSON) and the dispatcher (Formatter.parse).                      *)
(*                                                                         *)
(* JavaScript values are records [type, val]; an object's properties are a *)
(* function whose DOMAIN is the set of keys the object has.  Strings that  *)
(* the code inspects character by character (the raw CSV text, property    *)
(* keys) are sequences of characters.                                      *)
(***************************************************************************)
EXTENDS Integers, Sequences, FiniteSets, TLC

VARIABLES
    format,       \* the format tag given to parse
    str,          \* the text given to parse, a sequence of characters
    pc,           \* position of the call
    promise,      \* state of the promise returned by parse
    settled,      \* the value or reason the promise settled with
    err,          \* fromCSV handler: its `err` parameter / local
    result,       \* fromCSV handler: its `result` parameter (mutated in place)
    converted,    \* what the external converter handed over, before any change
    convertedErr, \* the err the converter handed over
    field,        \* fromCSV handler: the candidate column the loop matched
    idx,          \* fromCSV handler: index of the next feature of the inner loop
    lastResolve,  \* the latest parseTextGeom call of the handler
    alerts,       \* calls of Alert.error, in order
    debugs,       \* calls of console.debug, in order
    callbacks     \* calls of fromCSV's callback, in order

vars == <<format, str, pc, promise, settled, err, result, converted, convertedErr,
          field, idx, lastResolve, alerts, debugs, callbacks>>

-----------------------------------------------------------------------------
(* Bounds *)

MaxFeatures == 2

-----------------------------------------------------------------------------
(* JavaScript values *)

Str(s) == [type |-> "string", val |-> s]
Obj(s) == [type |-> "object", val |-> s]
Undefined == [type |-> "undefined", val |-> "undefined"]
Null == [type |-> "null", val |-> "null"]

\* typeof v
TypeOf(v) == IF v.type = "null" THEN "object" ELSE v.type

\* ToBoolean(v), as `if (v)` evaluates it
Truthy(v) ==
    CASE v.type = "undefined" -> FALSE
      [] v.type = "null" -> FALSE
      [] v.type = "string" -> v.val # ""
      [] OTHER -> TRUE

\* obj[key]
Get(obj, key) == IF key \in DOMAIN obj THEN obj[key] ELSE Undefined

\* obj[key] = v
Put(obj, key, v) == [k \in DOMAIN obj \cup {key} |-> IF k = key THEN v ELSE obj[k]]

\* delete obj[key]
Delete(obj, key) == [k \in DOMAIN obj \ {key} |-> obj[k]]

\* The characters of the property keys the model uses.
Chars(s) ==
    CASE s = "_" -> <<"_">>
      [] s = "_id" -> <<"_", "i", "d">>
      [] s = "name" -> <<"n", "a", "m", "e">>
      [] s = "desc" -> <<"d", "e", "s", "c">>
      [] s = "description" -> <<"d", "e", "s", "c", "r", "i", "p", "t", "i", "o", "n">>
      [] s = "links" -> <<"l", "i", "n", "k", "s">>

\* key.startsWith(prefix)
StartsWith(key, prefix) ==
    /\ Len(Chars(prefix)) <= Len(Chars(key))
    /\ SubSeq(Chars(key), 1, Len(Chars(prefix))) = Chars(prefix)

-----------------------------------------------------------------------------
(* External collaborators at their boundary *)

GeoJsonText == "{\"type\":\"Point\",\"coordinates\":[2.5,1.5]}"
WktText == "POINT(2.5 1.5)"
GarbageText == "garbage"

JsonPoint == Obj("Point[2.5,1.5] from JSON")
WktPoint == Obj("Point[2.5,1.5] from WKT")
LatLonPoint == Obj("Point from lat/lon columns")

\* JSON.parse(v): the value, or a SyntaxError.  undefined is converted to the
\* text "undefined", which is not JSON; the empty text is not JSON either.
JSONParse(v) ==
    IF v = Str(GeoJsonText)
    THEN [ok |-> TRUE, value |-> JsonPoint]
    ELSE [ok |-> FALSE, value |-> Undefined]

\* betterknown.wktToGeoJSON(v): what the lenient parser may do with v.  On
\* well-known text it returns the geometry; on anything else it returns null
\* or throws.
WktOutcomes(v) ==
    IF v = Str(WktText)
    THEN {[threw |-> FALSE, value |-> WktPoint]}
    ELSE {[threw |-> FALSE, value |-> Null], [threw |-> TRUE, value |-> Undefined]}

\* translate(template): the template itself, as a list of fragments.
Translate(template) == <<template>>

NumStr(n) == CASE n = 0 -> "0" [] n = 1 -> "1" [] n = 2 -> "2" [] n = 3 -> "3"

\* translate('{count} errors during import: {message}', {count, message}):
\* the template with both placeholders substituted.
TranslateErrors(count, message) == <<NumStr(count), " errors during import: ">> \o message

-----------------------------------------------------------------------------
(* parseTextGeom *)

\* parseTextGeom without its inner try/catch: a failure of the WKT parser
\* escapes.
ResolveNoCatch(geom, loaded, wkt) ==
    LET j == JSONParse(geom) IN
    IF j.ok THEN [threw |-> FALSE, value |-> j.value]
    ELSE IF ~loaded THEN [threw |-> TRUE, value |-> Undefined]
    ELSE wkt

\* parseTextGeom(geom), where `loaded` says whether the dynamic import of the
\* WKT parser succeeded and `wkt` is what the WKT parser does with geom.
ParseTextGeom(geom, loaded, wkt) ==
    LET j == JSONParse(geom) IN
    IF j.ok THEN [threw |-> FALSE, value |-> j.value]
    ELSE IF ~loaded THEN [threw |-> FALSE, value |-> Null]
    ELSE IF wkt.threw THEN [threw |-> FALSE, value |-> Null]
    ELSE [threw |-> FALSE, value |-> wkt.value]

NoResolve == [called |-> FALSE, input |-> Undefined, loaded |-> FALSE,
              wkt |-> [threw |-> FALSE, value |-> Undefined],
              out |-> [threw |-> FALSE, value |-> Undefined]]

-----------------------------------------------------------------------------
(* CSV import: inputs *)

\* Raw texts: one line, two lines (CRLF), three lines (CRLF), three lines
\* (mixed breaks, the last line empty).
Strs == { <<"a">>,
          <<"a", "\r", "\n", "1">>,
          <<"a", "\r", "\n", "1", "\r", "\n", "2">>,
          <<"a", "\r", "1", "\n">> }

\* The number of pieces of  s.split(/\r\n|\r|\n/)  for a text given as a
\* sequence of characters (a CR LF pair is two characters).
RECURSIVE SplitCount(_)
SplitCount(s) ==
    IF s = <<>> THEN 1
    ELSE IF Len(s) >= 2 /\ s[1] = "\r" /\ s[2] = "\n" THEN 1 + SplitCount(SubSeq(s, 3, Len(s)))
    ELSE IF s[1] = "\r" \/ s[1] = "\n" THEN 1 + SplitCount(Tail(s))
    ELSE SplitCount(Tail(s))

Absent == [type |-> "absent", val |-> "absent"]

\* A row object holding the cells that are present.
Row(cells) == [k \in {c \in DOMAIN cells : cells[c] # Absent} |-> cells[k]]

\* Rows as the converter leaves them when it found no lat/lon columns, or
\* after it consumed them (includeLatLon: false): a name and up to two of the
\* candidate geometry columns.
CsvRows ==
    { Row([name |-> Str("A"), geom |-> g, wkt |-> w]) :
        g \in {Absent, Str(""), Str(GarbageText), Str(WktText)},
        w \in {Absent, Str(GeoJsonText)} }

CsvFeatures == [geometry : {Null, LatLonPoint}, properties : CsvRows]

SeqsUpTo(S, n) == UNION {[1..k -> S] : k \in 0..n}

NoResult == [defined |-> FALSE, features |-> <<>>]

\* The `result` argument of the converter's callback: undefined, or a
\* feature collection.
ConverterResults ==
    {NoResult} \cup {[defined |-> TRUE, features |-> fs] : fs \in SeqsUpTo(CsvFeatures, MaxFeatures)}

NoErr == [type |-> "null", message |-> <<>>, rows |-> <<>>]
ConverterFatal == [type |-> "Error", message |-> <<"Could not autodetect delimiter">>, rows |-> <<>>]
RowErrors(rows) == [type |-> "Array", message |-> <<>>, rows |-> rows]

\* The `err` argument of the converter's callback: null, a single error of
\* type 'Error', or a non-empty array of row errors.
ConverterErrs ==
    { NoErr, ConverterFatal,
      RowErrors(<< <<"invalid latitude on row 1">> >>),
      RowErrors(<< <<"invalid longitude on row 2">>, <<"invalid latitude on row 3">> >>) }

-----------------------------------------------------------------------------
(* CSV import: Formatter.fromCSV *)

AlertDuration == 10000

GeomFields == <<"geom", "geometry", "wkt", "geojson">>

NoField == "<none>"

\* result?.features.length
HasFeatures(r) == r.defined /\ Len(r.features) > 0

\* The candidate search without its break: the last truthy candidate wins.
MatchLastField(props) ==
    LET hits == {i \in 1..Len(GeomFields) : Truthy(Get(props, GeomFields[i]))} IN
    IF hits = {} THEN NoField
    ELSE GeomFields[CHOOSE i \in hits : \A j \in hits : j <= i]

\* for (const field of geomFields) if (first.properties[field]) { ...; break }
\* the field the loop stops at, if any.
MatchField(props) ==
    LET hits == {i \in 1..Len(GeomFields) : Truthy(Get(props, GeomFields[i]))} IN
    IF hits = {} THEN NoField
    ELSE GeomFields[CHOOSE i \in hits : \A j \in hits : i <= j]

\* feature.geometry = await parseTextGeom(...); delete feature.properties[field]
ResolvedFeature(feature, f, out) ==
    [geometry |-> out.value, properties |-> Delete(feature.properties, f)]

\* The replacement error of lines 115-120 (the message without its backquotes).
NoGeoColumn ==
    [type |-> "Error",
     message |-> Translate("No geo column found: must be either lat(itude) and lon(gitude) or geom(etry)."),
     rows |-> <<>>]

\* The replacement decided by "no candidate matched" instead of by the first
\* feature's geometry.
NoGeoWhenNoColumn(r, f) == f = NoField

\* The second `first.geometry === null` test, after the fallback loop.
StillNoGeometry(r, f) == r.features[1].geometry = Null

\* The message built for a truthy err.
ErrMessage(e) ==
    IF e.type = "Error" THEN e.message
    ELSE TranslateErrors(Len(e.rows), e.rows[1])

\* The blank-text test with a threshold of one line.
SeemsBlankOneLine(s) == SplitCount(s) <= 1

\* str.split(/\r\n|\r|\n/).length <= 2
SeemsBlank(s) == SplitCount(s) <= 2

\* Delivery that treats errors and data as mutually exclusive.
DeliverOnlyWithoutError(r, e) == HasFeatures(r) /\ e.type = "null"

\* The guard of callback(result).
ShouldDeliver(r, e) == HasFeatures(r)

\* parse, case 'csv': the promise is created and fromCSV hands the text to
\* the converter.
ParseCSV ==
    /\ pc = "start"
    /\ format = "csv"
    /\ promise' = "pending"
    /\ pc' = "convert"
    /\ UNCHANGED <<format, str, settled, err, result, converted, convertedErr,
                   field, idx, lastResolve, alerts, debugs, callbacks>>

\* csv2geojson.csv2geojson invokes the handler once with (err, result).
Csv2geojson ==
    /\ pc = "convert"
    /\ \E e \in ConverterErrs, r \in ConverterResults :
          /\ err' = e
          /\ result' = r
          /\ converted' = r
          /\ convertedErr' = e
    /\ pc' = "handler"
    /\ UNCHANGED <<format, str, promise, settled, field, idx, lastResolve,
                   alerts, debugs, callbacks>>

\* Handler, lines 98-103: look at the first feature and search the candidate
\* columns.
CsvFallback ==
    /\ pc = "handler"
    /\ IF HasFeatures(result)
       THEN IF result.features[1].geometry = Null
            THEN LET f == MatchField(result.features[1].properties) IN
                 /\ field' = f
                 /\ idx' = 1
                 /\ pc' = IF f = NoField THEN "check" ELSE "loop"
            ELSE /\ pc' = "report"
                 /\ UNCHANGED <<field, idx>>
       ELSE /\ pc' = "report"
            /\ UNCHANGED <<field, idx>>
    /\ UNCHANGED <<format, str, promise, settled, err, result, converted,
                   convertedErr, lastResolve, alerts, debugs, callbacks>>

\* Handler, lines 104-107: one iteration of the loop over result.features.
CsvResolveFeature ==
    /\ pc = "loop"
    /\ idx <= Len(result.features)
    /\ LET feature == result.features[idx]
           geom == Get(feature.properties, field) IN
       \E loaded \in BOOLEAN, wkt \in WktOutcomes(geom) :
          LET out == ParseTextGeom(geom, loaded, wkt) IN
          /\ lastResolve' = [called |-> TRUE, input |-> geom, loaded |-> loaded,
                             wkt |-> wkt, out |-> out]
          /\ IF out.threw
             THEN \* the handler's promise rejects; nothing awaits it
                  /\ pc' = "done"
                  /\ UNCHANGED <<result, idx>>
             ELSE /\ result' = [result EXCEPT !.features[idx] = ResolvedFeature(feature, field, out)]
                  /\ idx' = idx + 1
                  /\ pc' = IF idx = Len(result.features) THEN "check" ELSE "loop"
    /\ UNCHANGED <<format, str, promise, settled, err, converted, convertedErr,
                   field, alerts, debugs, callbacks>>

\* Handler, lines 111-121: the first feature still has no geometry.
CsvNoGeoCheck ==
    /\ pc = "check"
    /\ err' = IF StillNoGeometry(result, field) THEN NoGeoColumn ELSE err
    /\ pc' = "report"
    /\ UNCHANGED <<format, str, promise, settled, result, converted, convertedErr,
                   field, idx, lastResolve, alerts, debugs, callbacks>>

\* Handler, lines 124-140: build the message, then log or alert.
CsvReport ==
    /\ pc = "report"
    /\ IF err.type # "null"
       THEN LET message == ErrMessage(err) IN
            IF SeemsBlank(str)
            THEN /\ debugs' = Append(debugs, err)
                 /\ UNCHANGED alerts
            ELSE /\ alerts' = Append(alerts, [message |-> message, duration |-> AlertDuration])
                 /\ UNCHANGED debugs
       ELSE UNCHANGED <<alerts, debugs>>
    /\ pc' = "deliver"
    /\ UNCHANGED <<format, str, promise, settled, err, result, converted, convertedErr,
                   field, idx, lastResolve, callbacks>>

\* Handler, lines 141-143: callback(result), which resolves parse's promise.
CsvDeliver ==
    /\ pc = "deliver"
    /\ IF ShouldDeliver(result, err)
       THEN /\ callbacks' = Append(callbacks, result)
            /\ promise' = "fulfilled"
            /\ settled' = result
       ELSE UNCHANGED <<callbacks, promise, settled>>
    /\ pc' = "done"
    /\ UNCHANGED <<format, str, err, result, converted, convertedErr, field, idx,
                   lastResolve, alerts, debugs>>

-----------------------------------------------------------------------------
(* XML and JSON adapters: inputs *)

WellFormedXml == <<"<", "a", "/", ">">>
MalformedXml == <<"<", "a">>
JsonDoc == <<"{", "}">>

AdapterStrs == {WellFormedXml, MalformedXml, JsonDoc}

\* new DOMParser().parseFromString(x, 'text/xml') yields a document holding a
\* parsererror node exactly for text that is not well-formed XML.
HasParserError(x) == x # WellFormedXml

\* JSON.parse(str) on a whole document succeeds exactly for JSON text.
IsJson(x) == x = JsonDoc

XmlPoint == Obj("Point from XML")

\* Properties as an XML converter may produce them: plain values, a
\* bookkeeping key, and object-typed values.
XmlProps ==
    { Row([name |-> Str("A"), desc |-> d, description |-> o, _id |-> u, links |-> l]) :
        d \in {Absent, Str("hello"), Obj("{@type: html}")},
        o \in {Absent, Str("old")},
        u \in {Absent, Str("x")},
        l \in {Absent, Obj("[link]")} }

XmlFeatures == [geometry : {XmlPoint}, properties : XmlProps]

\* What an external converter does: it throws, or returns a collection.
XmlCollections == {[defined |-> TRUE, features |-> fs] : fs \in SeqsUpTo(XmlFeatures, MaxFeatures)}

Thrown == [threw |-> TRUE, data |-> NoResult]

AdapterOutcomes == {Thrown} \cup {[threw |-> FALSE, data |-> c] : c \in XmlCollections}

-----------------------------------------------------------------------------
(* Formatter.toDom, fromGPX, fromKML, fromGeoJSON, fromOSM, fromGeoRSS *)

\* toDom(x): the alerts after parsing x as XML.
ToDomAlerts(x, before) ==
    IF HasParserError(x)
    THEN Append(before, [message |-> Translate("Cannot parse data"), duration |-> 0])
    ELSE before

\* The clean-up without the test of the bookkeeping prefix.
GpxKeepsUnderscore(props) ==
    LET p == Put(props, "description", Get(props, "desc")) IN
    [k \in {c \in DOMAIN p : ~(TypeOf(p[c]) = "object")} |-> p[k]]

\* fromGPX, lines 57-62, for one feature's properties.
GpxProperties(props) ==
    LET p == Put(props, "description", Get(props, "desc")) IN
    [k \in {c \in DOMAIN p : ~(StartsWith(c, "_") \/ TypeOf(p[c]) = "object")} |-> p[k]]

\* fromGPX, lines 56-63: the loop over data.features.
GpxPostProcessed(data) ==
    [data EXCEPT !.features =
        [i \in 1..Len(data.features) |->
            [data.features[i] EXCEPT !.properties = GpxProperties(@)]]]

Reject ==
    /\ promise' = "rejected"
    /\ settled' = NoResult
    /\ pc' = "done"

Fulfil(data) ==
    /\ promise' = "fulfilled"
    /\ settled' = data
    /\ pc' = "done"

\* parse, case 'gpx'; fromGPX, lines 54-55: load the converter, parse the
\* text as XML and convert.
FromGPX ==
    /\ pc = "start"
    /\ format = "gpx"
    /\ \E loaded \in BOOLEAN, out \in AdapterOutcomes :
          IF ~loaded
          THEN Reject /\ UNCHANGED <<alerts, result, converted>>
          ELSE /\ alerts' = ToDomAlerts(str, alerts)
               /\ IF out = Thrown
                  THEN Reject /\ UNCHANGED <<result, converted>>
                  ELSE /\ result' = out.data
                       /\ converted' = out.data
                       /\ promise' = "pending"
                       /\ pc' = "postprocess"
                       /\ UNCHANGED settled
    /\ UNCHANGED <<format, str, err, convertedErr, field, idx, lastResolve,
                   debugs, callbacks>>

\* fromGPX, lines 56-64.
GpxPostProcess ==
    /\ pc = "postprocess"
    /\ result' = GpxPostProcessed(result)
    /\ Fulfil(GpxPostProcessed(result))
    /\ UNCHANGED <<format, str, err, converted, convertedErr, field, idx,
                   lastResolve, alerts, debugs, callbacks>>

\* parse, case 'kml'; fromKML.
FromKML ==
    /\ pc = "start"
    /\ format = "kml"
    /\ \E loaded \in BOOLEAN, out \in AdapterOutcomes :
          IF ~loaded
          THEN Reject /\ UNCHANGED <<alerts, result, converted>>
          ELSE /\ alerts' = ToDomAlerts(str, alerts)
               /\ IF out = Thrown
                  THEN Reject /\ UNCHANGED <<result, converted>>
                  ELSE /\ result' = out.data
                       /\ converted' = out.data
                       /\ Fulfil(out.data)
    /\ UNCHANGED <<format, str, err, convertedErr, field, idx, lastResolve,
                   debugs, callbacks>>

\* parse, case 'geojson'; fromGeoJSON.
FromGeoJSON ==
    /\ pc = "start"
    /\ format = "geojson"
    /\ IF IsJson(str)
       THEN \E data \in XmlCollections :
               /\ result' = data
               /\ converted' = data
               /\ Fulfil(data)
       ELSE Reject /\ UNCHANGED <<result, converted>>
    /\ UNCHANGED <<format, str, err, convertedErr, field, idx, lastResolve,
                   alerts, debugs, callbacks>>

\* parse, case 'osm'; fromOSM.
FromOSM ==
    /\ pc = "start"
    /\ format = "osm"
    /\ alerts' = IF IsJson(str) THEN alerts ELSE ToDomAlerts(str, alerts)
    /\ \E out \in AdapterOutcomes :
          IF out = Thrown
          THEN Reject /\ UNCHANGED <<result, converted>>
          ELSE /\ result' = out.data
               /\ converted' = out.data
               /\ Fulfil(out.data)
    /\ UNCHANGED <<format, str, err, convertedErr, field, idx, lastResolve,
                   debugs, callbacks>>

\* parse, case 'georss'; fromGeoRSS.
FromGeoRSS ==
    /\ pc = "start"
    /\ format = "georss"
    /\ \E loaded \in BOOLEAN, out \in AdapterOutcomes :
          IF ~loaded
          THEN Reject /\ UNCHANGED <<alerts, result, converted>>
          ELSE /\ alerts' = ToDomAlerts(str, alerts)
               /\ IF out = Thrown
                  THEN Reject /\ UNCHANGED <<result, converted>>
                  ELSE /\ result' = out.data
                       /\ converted' = out.data
                       /\ Fulfil(out.data)
    /\ UNCHANGED <<format, str, err, convertedErr, field, idx, lastResolve,
                   debugs, callbacks>>

-----------------------------------------------------------------------------
(* Specifications *)

Idle ==
    /\ pc = "start"
    /\ promise = "none"
    /\ settled = NoResult
    /\ err = NoErr
    /\ result = NoResult
    /\ converted = NoResult
    /\ convertedErr = NoErr
    /\ field = NoField
    /\ idx = 0
    /\ lastResolve = NoResolve
    /\ alerts = <<>>
    /\ debugs = <<>>
    /\ callbacks = <<>>

\* A call parse(str, 'csv').
Init ==
    /\ format = "csv"
    /\ str \in Strs
    /\ Idle

Next ==
    \/ ParseCSV
    \/ Csv2geojson
    \/ CsvFallback
    \/ CsvResolveFeature
    \/ CsvNoGeoCheck
    \/ CsvReport
    \/ CsvDeliver

Spec == Init /\ [][Next]_vars

\* A call parse(str, format) with one of the other supported tags.
InitAdapters ==
    /\ format \in {"gpx", "kml", "geojson", "osm", "georss"}
    /\ str \in AdapterStrs
    /\ Idle

NextAdapters ==
    \/ FromGPX
    \/ GpxPostProcess
    \/ FromKML
    \/ FromGeoJSON
    \/ FromOSM
    \/ FromGeoRSS

SpecAdapters == InitAdapters /\ [][NextAdapters]_vars

-----------------------------------------------------------------------------
(* Properties of the CSV import (Spec) *)

\* The handler has passed its reporting step (lines 124-140).
Reported == pc \in {"deliver", "done"}

\* The handler has passed the fallback step (lines 98-123).
FallbackOver == pc \in {"report", "deliver", "done"}

\* Whether the first feature is without geometry once the fallback is over.
FirstStillNull == HasFeatures(result) /\ result.features[1].geometry = Null

TemplatedAlert(e) ==
    [message |-> <<NumStr(Len(e.rows)), " errors during import: ">> \o e.rows[1],
     duration |-> 10000]

\* C1: whenever the outcome of a CSV import is a fatal error (an error of type
\* 'Error' from the converter, or the 'No geo column found' error), its message
\* is passed to Alert.error with duration 10000, however many lines the raw
\* text has.
C1_FatalAlwaysAlerted ==
    (Reported /\ err.type = "Error")
        => alerts = << [message |-> err.message, duration |-> 10000] >>

\* C2, as stated: when the converter reports a row-level error batch, a text of
\* two or fewer lines never reaches Alert.error (console.debug only), and a
\* text of more than two lines reaches Alert.error exactly once with the
\* templated message embedding the error count and the first row error.
C2_RowBatchAlert ==
    (Reported /\ convertedErr.type = "Array")
        => IF SplitCount(str) <= 2
           THEN alerts = <<>> /\ Len(debugs) = 1
           ELSE alerts = << TemplatedAlert(convertedErr) >> /\ debugs = <<>>

\* C2, amended: as C2, except that on a text of more than two lines the single
\* Alert.error call carries the 'No geo column found' message instead of the
\* templated one when the handler replaced the row errors by that fatal error
\* (the result has features and its first feature is still without geometry
\* after the fallback).
C2_RowBatchAlertUnlessReplaced ==
    (Reported /\ convertedErr.type = "Array")
        => IF SplitCount(str) <= 2
           THEN alerts = <<>> /\ Len(debugs) = 1
           ELSE /\ debugs = <<>>
                /\ alerts = << IF FirstStillNull
                               THEN [message |-> NoGeoColumn.message, duration |-> 10000]
                               ELSE TemplatedAlert(convertedErr) >>

C2_Witness ==
    /\ pc = "done"
    /\ convertedErr.type = "Array"
    /\ Len(convertedErr.rows) = 2
    /\ SplitCount(str) > 2
    /\ ~FirstStillNull
    /\ alerts = << TemplatedAlert(convertedErr) >>

\* C3: when the converter's result has features, its first feature has null
\* geometry and none of geom/geometry/wkt/geojson is truthy on it, the import
\* ends with the fatal 'No geo column found' error and the success callback is
\* not invoked.
C3_NoGeoColumnSurfacesNothing ==
    ( /\ pc = "done"
      /\ HasFeatures(converted)
      /\ converted.features[1].geometry = Null
      /\ \A i \in 1..Len(GeomFields) :
            ~Truthy(Get(converted.features[1].properties, GeomFields[i])) )
        => (err = NoGeoColumn /\ callbacks = <<>>)

\* C4: the success callback is invoked if and only if the result has at least
\* one feature, whatever error was classified and whether or not an alert was
\* raised; it is invoked at most once, with the result, and only after the
\* reporting step.
C4_CallbackIffFeatures ==
    /\ Len(callbacks) <= 1
    /\ callbacks # <<>> => (pc = "done" /\ callbacks[1] = result)
    /\ pc = "done" => (callbacks # <<>> <=> (converted.defined /\ converted.features # <<>>))
    /\ pc \in {"start", "convert", "handler", "loop", "check", "report", "deliver"}
          => callbacks = <<>>

C4_Witness ==
    /\ pc = "done"
    /\ Len(callbacks) = 1
    /\ err.type = "Error"
    /\ Len(alerts) = 1

\* C5: the promise returned by parse settles: once the handler of a CSV import
\* has run to its end, the promise is fulfilled or rejected.
C5_ParseSettles ==
    pc = "done" => promise \in {"fulfilled", "rejected"}

\* The geometries parseTextGeom may give for a cell.
Resolutions(v) ==
    { ParseTextGeom(v, loaded, wkt).value : loaded \in BOOLEAN, wkt \in WktOutcomes(v) }

\* C6: in the fallback (the converter left the first feature without geometry)
\* the column used is the first of geom, geometry, wkt, geojson that is truthy
\* on the first feature; every feature, in order, gets the resolver's result
\* for its value of that column as geometry (null when the row lacks the
\* column) and loses that key, and nothing else of any feature changes; without
\* a matching column nothing changes.
C6_FallbackColumn ==
    (pc \in {"loop", "check", "report", "deliver", "done"}
        /\ HasFeatures(converted) /\ converted.features[1].geometry = Null)
        => LET first == converted.features[1].properties
               done == IF pc = "loop" THEN idx - 1 ELSE Len(converted.features)
           IN
           /\ Len(result.features) = Len(converted.features)
           /\ IF \A i \in 1..4 : ~Truthy(Get(first, GeomFields[i]))
              THEN field = NoField /\ result = converted
              ELSE /\ \E i \in 1..4 :
                        /\ field = GeomFields[i]
                        /\ Truthy(Get(first, GeomFields[i]))
                        /\ \A j \in 1..(i - 1) : ~Truthy(Get(first, GeomFields[j]))
                   /\ \A k \in 1..Len(converted.features) :
                        LET before == converted.features[k]
                            after == result.features[k]
                        IN
                        IF k <= done
                        THEN /\ after.geometry \in Resolutions(Get(before.properties, field))
                             /\ field \notin DOMAIN before.properties => after.geometry = Null
                             /\ DOMAIN after.properties = DOMAIN before.properties \ {field}
                             /\ \A c \in DOMAIN after.properties :
                                   after.properties[c] = before.properties[c]
                        ELSE after = before
                   /\ (done >= 1 /\ lastResolve.called) =>
                        /\ lastResolve.input = Get(converted.features[done].properties, field)
                        /\ result.features[done].geometry = lastResolve.out.value

C6_Witness ==
    /\ pc = "done"
    /\ field = "wkt"
    /\ Len(converted.features) = 2
    /\ DOMAIN converted.features[1].properties = {"name", "geom", "wkt"}
    /\ DOMAIN result.features[1].properties = {"name", "geom"}
    /\ result.features[1].geometry = JsonPoint
    /\ "wkt" \notin DOMAIN converted.features[2].properties
    /\ converted.features[2].geometry = LatLonPoint
    /\ result.features[2].geometry = Null

\* C7: parseTextGeom never throws; when the strict JSON parse succeeds it
\* returns the parsed value; otherwise it returns what the WKT parser returns;
\* and when loading or running the WKT parser fails it returns null.
C7_ResolverTotal ==
    lastResolve.called =>
        LET j == JSONParse(lastResolve.input) IN
        /\ ~lastResolve.out.threw
        /\ j.ok => lastResolve.out.value = j.value
        /\ (~j.ok /\ lastResolve.loaded /\ ~lastResolve.wkt.threw)
              => lastResolve.out.value = lastResolve.wkt.value
        /\ (~j.ok /\ (~lastResolve.loaded \/ lastResolve.wkt.threw))
              => lastResolve.out.value = Null

C7_Witness ==
    /\ lastResolve.called
    /\ lastResolve.input = Str(GarbageText)
    /\ lastResolve.loaded
    /\ lastResolve.wkt.threw
    /\ lastResolve.out = [threw |-> FALSE, value |-> Null]
    /\ pc = "check"

\* C10: in a CSV import whose result has features, the converter's error is
\* replaced by the fatal 'No geo column found' error exactly when the first
\* feature's geometry is null after the fallback step (also when a column
\* matched but the first row resolved to null while later rows resolved); when
\* the converter gave the first feature a geometry, the batch is accepted as it
\* is: no feature is modified and the converter's error is kept.
C10_ReplacedIffFirstNull ==
    (FallbackOver /\ HasFeatures(converted))
        => /\ IF result.features[1].geometry = Null
              THEN err = NoGeoColumn
              ELSE err = convertedErr
           /\ converted.features[1].geometry # Null
                 => (result = converted /\ err = convertedErr /\ field = NoField)

C10_Witness ==
    /\ pc = "done"
    /\ field = "geom"
    /\ Len(result.features) = 2
    /\ converted.features[1].properties["geom"] = Str(GarbageText)
    /\ result.features[1].geometry = Null
    /\ result.features[2].geometry = WktPoint
    /\ convertedErr.type = "Array"
    /\ err = NoGeoColumn

-----------------------------------------------------------------------------
(* Properties of the XML adapters (SpecAdapters) *)

Scalar(v) == TypeOf(v) # "object"

\* No bookkeeping key and no object-typed value is left, and a scalar desc of
\* the converter is what description holds.
Flat(before, after) ==
    /\ \A k \in DOMAIN after : ~StartsWith(k, "_") /\ Scalar(after[k])
    /\ ("desc" \in DOMAIN before /\ Scalar(before["desc"]))
          => ("description" \in DOMAIN after /\ after["description"] = before["desc"])

\* The scalar properties without the bookkeeping prefix, other than those in
\* `except`, are as the converter gave them.
Kept(before, after, except) ==
    \A k \in DOMAIN before \ except :
        (Scalar(before[k]) /\ ~StartsWith(k, "_"))
            => (k \in DOMAIN after /\ after[k] = before[k])

GpxFulfilled == format = "gpx" /\ promise = "fulfilled"

\* C8, as stated: after GPX import no property key starts with '_', no property
\* value is object-typed, description holds the converter's desc when that is
\* scalar, every scalar property whose key does not start with '_' is left
\* unchanged (description too, when the converter gave no scalar desc to copy),
\* and the features keep their order.
C8_GpxNormalised ==
    GpxFulfilled =>
        /\ Len(settled.features) = Len(converted.features)
        /\ \A i \in 1..Len(converted.features) :
              LET before == converted.features[i].properties
                  after == settled.features[i].properties
              IN
              /\ settled.features[i].geometry = converted.features[i].geometry
              /\ Flat(before, after)
              /\ Kept(before, after,
                      IF "desc" \in DOMAIN before /\ Scalar(before["desc"])
                      THEN {"description"} ELSE {})

\* C8, amended: as C8, with "every scalar property other than description whose
\* key does not start with '_' is left unchanged".
C8_GpxNormalisedButDescription ==
    GpxFulfilled =>
        /\ Len(settled.features) = Len(converted.features)
        /\ \A i \in 1..Len(converted.features) :
              LET before == converted.features[i].properties
                  after == settled.features[i].properties
              IN
              /\ settled.features[i].geometry = converted.features[i].geometry
              /\ Flat(before, after)
              /\ Kept(before, after, {"description"})

C8_Witness ==
    /\ GpxFulfilled
    /\ Len(converted.features) = 2
    /\ DOMAIN converted.features[1].properties = {"name", "desc", "_id", "links"}
    /\ converted.features[1].properties["desc"] = Str("hello")
    /\ DOMAIN settled.features[1].properties = {"name", "desc", "description"}
    /\ settled.features[1].properties["description"] = Str("hello")
    /\ converted.features[2].properties["desc"] = Obj("{@type: html}")
    /\ DOMAIN settled.features[2].properties = {"name"}

\* C9: after KML import every feature has its desc copied into description and
\* carries no property whose key starts with '_' and no object-typed property
\* value.
C9_KmlNormalised ==
    (format = "kml" /\ promise = "fulfilled") =>
        \A i \in 1..Len(converted.features) :
            Flat(converted.features[i].properties, settled.features[i].properties)

====
